---- MODULE Spec2Model ----
(***************************************************************************)
(* Model of the HomeStation router client (internal/router/homestation.go) *)
(* of am-i-home: the salted two-step login, the session activation, the    *)
(* host-table fetch and the best-effort logout that ListConnected chains.  *)
(*                                                                         *)
(* Strings are sequences of tokens (a token stands for a run of            *)
(* characters; in addresses, host names and matchers for one character),   *)
(* so that concatenation, emptiness and substring search are computed on   *)
(* them.  The router is the environment: every response is drawn from a    *)
(* bounded set of transport outcomes and bodies.                           *)
(***************************************************************************)
EXTENDS Integers, Sequences, FiniteSets, TLC

VARIABLES
    user,       \* HomeStationClient.user
    pass,       \* HomeStationClient.pass
    pc,         \* position of the single caller inside ListConnected
    trace,      \* the HTTP round trips of the current call, in order
    hashes,     \* the pbkdf2Hex computations of the current call, in order
    finalHash,  \* tryLogin's local finalHash
    loginRes,   \* what tryLogin returned, once it has returned
    fetchRes,   \* what fetchHostTbl returned, once it has returned
    ret,        \* what ListConnected returned, once it has returned
    calls       \* number of ListConnected calls started so far

\* the arguments and the results of normalizeMAC and MatchMAC
VARIABLES
    macA,       \* the string normalizeMAC is applied to, MatchMAC's a
    macB,       \* MatchMAC's b
    macRes      \* what the functions returned

\* the arguments and the result of PrintStructTable
VARIABLES
    tblItems,   \* items
    tblHeaders, \* headers
    tblRes      \* the error returned and the bytes written to w

\* the process running main
VARIABLES
    procIn,     \* its arguments, flags, environment, .env file and stdin
    mpc,        \* the position of main
    mpass,      \* *pass
    stdout,     \* the bytes written to os.Stdout
    exitCode,   \* the code the process exited with, -1 while it runs
    checked     \* what CheckByMatcher returned

routerVars == <<user, pass, pc, trace, hashes, finalHash, loginRes, fetchRes, ret, calls>>
macVars == <<macA, macB, macRes>>
tblVars == <<tblItems, tblHeaders, tblRes>>
mainVars == <<procIn, mpc, mpass, stdout, exitCode, checked>>
auxVars == <<macVars, tblVars, mainVars>>
vars == <<routerVars, auxVars>>

----------------------------------------------------------------------------
(* Bounds *)

MaxCalls == 2
MaxHosts == 2

----------------------------------------------------------------------------
(* Strings, errors, JSON values *)

EmptyStr == <<>>

\* strings.Contains(s, sub)
Contains(s, sub) ==
    \E i \in 1..(Len(s) + 1) :
        /\ i + Len(sub) - 1 <= Len(s)
        /\ SubSeq(s, i, i + Len(sub) - 1) = sub

\* a Go error value: nil, or an error with its Error() text
Nil == [isNil |-> TRUE, text |-> EmptyStr]
Err(t) == [isNil |-> FALSE, text |-> t]

\* errors.New(text)
New(t) == Err(t)

\* fmt.Errorf(prefix + "%w", err), fmt.Errorf(prefix + "%s", s)
Errorf(prefix, t) == Err(<<prefix>> \o t)

\* a JSON field of a response object: absent, a string, or a value of
\* another JSON type (number, boolean, object ...)
Absent == [t |-> "absent", s |-> EmptyStr]
Str(s) == [t |-> "str", s |-> s]
Other == [t |-> "other", s |-> EmptyStr]

----------------------------------------------------------------------------
(* Endpoints and requests *)

LoginPath == "/api/v1/session/login"
MenuPath == "/api/v1/session/menu"
HostTblPath == "/api/v1/host/hostTbl"
LogoutPath == "/api/v1/session/logout"

SeekSaltHash == <<"seeksalthash">>
MsgLogin150 == <<"MSG_LOGIN_", "150">>

\* url.Values: a set of <<key, value>> pairs, one value per key
EmptyForm == {}
CredForm(u, p) == {<<"username", u>>, <<"password", p>>}
FormKeys(form) == {kv[1] : kv \in form}
FormGet(form, k) == IF \E kv \in form : kv[1] = k
                    THEN (CHOOSE kv \in form : kv[1] = k)[2]
                    ELSE EmptyStr

\* pbkdf2Hex(password, salt): the digest as a term over its two inputs
pbkdf2Hex(password, salt) ==
    <<"pbkdf2(">> \o password \o <<",">> \o salt \o <<")">>

----------------------------------------------------------------------------
(* Responses of the router *)

\* a response body: not JSON at all ("garbage"), or a JSON object with
\* the fields the client looks at; "none" when the transport failed
Body(kind, e, m, s, w, hosts) ==
    [kind |-> kind, error |-> e, message |-> m, salt |-> s,
     saltwebui |-> w, hostTbl |-> hosts]
NoBody == Body("none", Absent, Absent, Absent, Absent, <<>>)
Garbage == Body("garbage", Absent, Absent, Absent, Absent, <<>>)

\* client.Do failed (network error or the 10 second timeout): there is no
\* *http.Response, hence no status code
TransportFailure == [err |-> Err(<<"timeout">>), status |-> 0, body |-> NoBody]

\* client.Do returned a response with this status code and this body
RepliedWith(status, b) == [err |-> Nil, status |-> status, body |-> b]
Replied(b) == RepliedWith(200, b)

ErrorFields == {Absent, Str(<<"ok">>), Str(<<"fail">>), Other}
SaltFields == {Absent, Str(EmptyStr), Str(<<"s1">>), Str(<<"s2">>), Other}
SaltWebUIFields == {Absent, Str(EmptyStr), Str(<<"w1">>), Other}
MessageFields == {Absent, Other, Str(<<"bad credentials">>),
                  Str(<<"MSG_LOGIN_", "150", " please logout">>),
                  Str(<<"MSG_LOGIN_", "151">>)}

ChallengeResponses ==
    {TransportFailure, Replied(Garbage)} \cup
    {Replied(Body("object", e, Absent, s, w, <<>>)) :
        e \in ErrorFields, s \in SaltFields, w \in SaltWebUIFields} \cup
    {RepliedWith(500, Garbage),
     RepliedWith(500, Body("object", Str(<<"fail">>), Absent, Str(<<"s1">>), Str(<<"w1">>), <<>>)),
     RepliedWith(401, Body("object", Absent, Absent, Str(<<"s1">>), Str(EmptyStr), <<>>))}

SubmitResponses ==
    {TransportFailure, Replied(Garbage)} \cup
    {Replied(Body("object", e, m, Absent, Absent, <<>>)) :
        e \in ErrorFields, m \in MessageFields}

\* responses to the requests whose response is discarded
DiscardedResponses ==
    {TransportFailure, Replied(Garbage),
     Replied(Body("object", Str(<<"ok">>), Absent, Absent, Absent, <<>>))}

HostRec(mac, ip, name, active) ==
    [physaddress |-> mac, ipaddress |-> ip, hostname |-> name, active |-> active]
HostRecs ==
    {HostRec(<<"A", ":", "B">>, <<"1", ".", "5">>, <<"p", "c">>, <<"true">>),
     HostRec(<<"a", "-", "c">>, <<"1", ".", "6">>, <<"t", "v">>, <<"false">>),
     HostRec(<<"A", "B">>, <<"1", ".", "7">>, <<"n", "a", "s">>, <<"maybe">>),
     HostRec(<<"a", "d">>, <<"1", ".", "8">>, <<"a", "b">>, <<"TRUE">>),
     HostRec(<<>>, <<>>, <<>>, <<>>)}

RECURSIVE SeqsUpTo(_, _)
SeqsUpTo(S, n) ==
    IF n = 0 THEN {<<>>}
    ELSE LET shorter == SeqsUpTo(S, n - 1)
         IN  shorter \cup {Append(q, x) : q \in shorter, x \in S}

\* the host-table envelopes: with error == "ok", every list of host
\* records; with another error field, the lists of one active record
ActiveRec == HostRec(<<"A", ":", "B">>, <<"1", ".", "5">>, <<"p", "c">>, <<"true">>)
HostTblResponses ==
    {TransportFailure, Replied(Garbage)} \cup
    {Replied(Body("object", Str(<<"ok">>), Absent, Absent, Absent, hosts)) :
        hosts \in SeqsUpTo(HostRecs, MaxHosts)} \cup
    {Replied(Body("object", e, Absent, Absent, Absent, hosts)) :
        e \in ErrorFields \ {Str(<<"ok">>)}, hosts \in SeqsUpTo({ActiveRec}, MaxHosts)}

----------------------------------------------------------------------------
(* JSON decoding *)

\* the Go string a typed struct field receives from a JSON field
FieldString(f) == IF f.t = "str" THEN f.s ELSE EmptyStr

\* json.Unmarshal(body, &saltResponse): fails on a body that is not JSON
\* and on a field whose JSON type is not string
saltResp(body) ==
    [err |-> IF body.kind # "object"
             THEN Err(<<"invalid character">>)
             ELSE IF Other \in {body.error, body.salt, body.saltwebui}
             THEN Err(<<"cannot unmarshal">>)
             ELSE Nil,
     Error |-> FieldString(body.error),
     Salt |-> FieldString(body.salt),
     SaltWebUI |-> FieldString(body.saltwebui)]

\* json.Unmarshal(resp2body, &jr) into map[string]any: fails only on a
\* body that is not JSON; the fields keep their JSON type
loginResult(body) ==
    [err |-> IF body.kind # "object" THEN Err(<<"invalid character">>) ELSE Nil,
     error |-> body.error,
     message |-> body.message]

\* json.Unmarshal(body, &r) into hostTblResp
hostTblResp(body) ==
    [err |-> IF body.kind # "object"
             THEN Err(<<"invalid character">>)
             ELSE IF Other \in {body.error, body.message}
             THEN Err(<<"cannot unmarshal">>)
             ELSE Nil,
     Error |-> FieldString(body.error),
     HostTbl |-> body.hostTbl]

----------------------------------------------------------------------------
(* One HTTP round trip *)

\* doPostForm(u, form) and doGet(u): the request that is sent, recorded
\* with the response client.Do gave to it
doPostForm(u, form, resp) ==
    [method |-> "POST", path |-> u, form |-> form, resp |-> resp]
doGet(u, resp) ==
    [method |-> "GET", path |-> u, form |-> EmptyForm, resp |-> resp]

----------------------------------------------------------------------------
(* tryLogin, fetchHostTbl, ListConnected: the decisions of the code *)

Pending == [done |-> FALSE, devices |-> <<>>, err |-> Nil]
Returned(devices, err) == [done |-> TRUE, devices |-> devices, err |-> err]

\* challengeError asking for error == "ok" in the challenge response
challengeErrorChecksError(resp) ==
    LET r == saltResp(resp.body)
    IN  IF ~resp.err.isNil
        THEN Errorf("failed requesting salt: ", resp.err.text)
        ELSE IF ~r.err.isNil
        THEN Errorf("failed parsing salt response: ", r.err.text)
        ELSE IF r.Error # <<"ok">>
        THEN Errorf("salt request returned error: ", r.Error)
        ELSE IF r.Salt = EmptyStr
        THEN New(<<"no salt returned from router">>)
        ELSE IF r.SaltWebUI = EmptyStr
        THEN New(<<"no saltwebui returned from router">>)
        ELSE Nil

\* challengeError dropping the error of doPostForm
challengeErrorIgnoresTransport(resp) ==
    LET r == saltResp(resp.body)
    IN  IF ~r.err.isNil
        THEN Errorf("failed parsing salt response: ", r.err.text)
        ELSE IF r.Salt = EmptyStr
        THEN New(<<"no salt returned from router">>)
        ELSE IF r.SaltWebUI = EmptyStr
        THEN New(<<"no saltwebui returned from router">>)
        ELSE Nil

\* challengeError without the saltWebUI check
challengeErrorNoWebUICheck(resp) ==
    LET r == saltResp(resp.body)
    IN  IF ~resp.err.isNil
        THEN Errorf("failed requesting salt: ", resp.err.text)
        ELSE IF ~r.err.isNil
        THEN Errorf("failed parsing salt response: ", r.err.text)
        ELSE IF r.Salt = EmptyStr
        THEN New(<<"no salt returned from router">>)
        ELSE Nil

\* tryLogin up to the hash computation: the error it returns on the
\* challenge response, or nil to go on
challengeError(resp) ==
    LET r == saltResp(resp.body)
    IN  IF ~resp.err.isNil
        THEN Errorf("failed requesting salt: ", resp.err.text)
        ELSE IF ~r.err.isNil
        THEN Errorf("failed parsing salt response: ", r.err.text)
        ELSE IF r.Salt = EmptyStr
        THEN New(<<"no salt returned from router">>)
        ELSE IF r.SaltWebUI = EmptyStr
        THEN New(<<"no saltwebui returned from router">>)
        ELSE Nil

\* doubleHash handing the password on unhashed
doubleHashPlain(password, salt, saltWebUI) == <<password, password>>

\* doubleHash with the first round only
doubleHashSingleRound(password, salt, saltWebUI) ==
    LET hash1 == pbkdf2Hex(password, salt)
    IN  <<hash1, hash1>>

\* hash1, finalHash of tryLogin
doubleHash(password, salt, saltWebUI) ==
    LET hash1 == pbkdf2Hex(password, salt)
    IN  <<hash1, pbkdf2Hex(hash1, saltWebUI)>>

\* errorIsOk taking any decoded response for a success
errorIsOkAnyObject(jr) == jr.err.isNil

\* e, ok := jr["error"].(string); ok && e == "ok"
errorIsOk(jr) == jr.err.isNil /\ jr.error.t = "str" /\ jr.error.s = <<"ok">>

\* messageIsBlocked comparing the whole message with the code
messageIsBlockedExact(jr) ==
    jr.err.isNil /\ jr.message.t = "str" /\ jr.message.s = MsgLogin150

\* messageIsBlocked on any string message
messageIsBlockedAnyMessage(jr) == jr.err.isNil /\ jr.message.t = "str"

\* msg, ok := jr["message"].(string); ok && strings.Contains(msg, "MSG_LOGIN_150")
messageIsBlocked(jr) ==
    jr.err.isNil /\ jr.message.t = "str" /\ Contains(jr.message.s, MsgLogin150)

\* tryLogin after the credential submit: the error it returns on the
\* response, or nil to go on to activateSession
submitError(resp) ==
    LET jr == loginResult(resp.body)
    IN  IF ~resp.err.isNil
        THEN Errorf("failed posting hashed password: ", resp.err.text)
        ELSE IF errorIsOk(jr)
        THEN Nil
        ELSE IF messageIsBlocked(jr)
        THEN Errorf("An active session exists. Logout first. ", jr.message.s)
        ELSE New(<<"login failed with provided credentials">>)

\* activatedResult handing the transport error of the menu GET on
activatedResultChecked(resp) ==
    IF resp.err.isNil THEN Nil ELSE Errorf("failed activating session: ", resp.err.text)

\* what tryLogin returns after activateSession, whose response is dropped
activatedResult(resp) == Nil

\* Device taking every flag but "false" for active
DeviceActiveUnlessFalse(e) ==
    [MAC |-> e.physaddress, IP |-> e.ipaddress, Hostname |-> e.hostname,
     Active |-> (e.active # <<"false">>)]

\* Device{...} of one host record
Device(e) ==
    [MAC |-> e.physaddress, IP |-> e.ipaddress, Hostname |-> e.hostname,
     Active |-> (e.active = <<"true">>)]

\* the loop of fetchHostTbl over r.Data.HostTbl
Devices(hostTbl) == [i \in 1..Len(hostTbl) |-> Device(hostTbl[i])]

\* hostTblResult without the check of r.Error
hostTblResultNoStatusCheck(resp) ==
    LET r == hostTblResp(resp.body)
    IN  IF ~resp.err.isNil
        THEN Returned(<<>>, Errorf("failed fetching host table: ", resp.err.text))
        ELSE IF ~r.err.isNil
        THEN Returned(<<>>, Errorf("failed parsing host table JSON: ", r.err.text))
        ELSE Returned(Devices(r.HostTbl), Nil)

\* hostTblResult returning the records of an envelope that is not ok
hostTblResultKeepsDevices(resp) ==
    LET r == hostTblResp(resp.body)
    IN  IF ~resp.err.isNil
        THEN Returned(<<>>, Errorf("failed fetching host table: ", resp.err.text))
        ELSE IF ~r.err.isNil
        THEN Returned(<<>>, Errorf("failed parsing host table JSON: ", r.err.text))
        ELSE IF r.Error # <<"ok">>
        THEN Returned(Devices(r.HostTbl), Errorf("host table returned error: ", r.Error))
        ELSE Returned(Devices(r.HostTbl), Nil)

\* hostTblResult treating an empty host list as a failure
hostTblResultEmptyIsError(resp) ==
    LET r == hostTblResp(resp.body)
    IN  IF ~resp.err.isNil
        THEN Returned(<<>>, Errorf("failed fetching host table: ", resp.err.text))
        ELSE IF ~r.err.isNil
        THEN Returned(<<>>, Errorf("failed parsing host table JSON: ", r.err.text))
        ELSE IF r.Error # <<"ok">>
        THEN Returned(<<>>, Errorf("host table returned error: ", r.Error))
        ELSE IF r.HostTbl = <<>>
        THEN Returned(<<>>, New(<<"host table is empty">>))
        ELSE Returned(Devices(r.HostTbl), Nil)

\* fetchHostTbl on the response of its GET
hostTblResult(resp) ==
    LET r == hostTblResp(resp.body)
    IN  IF ~resp.err.isNil
        THEN Returned(<<>>, Errorf("failed fetching host table: ", resp.err.text))
        ELSE IF ~r.err.isNil
        THEN Returned(<<>>, Errorf("failed parsing host table JSON: ", r.err.text))
        ELSE IF r.Error # <<"ok">>
        THEN Returned(<<>>, Errorf("host table returned error: ", r.Error))
        ELSE Returned(Devices(r.HostTbl), Nil)

\* afterLogin starting the login again after a failure
afterLoginRetry(err) == IF ~err.isNil THEN "challenge" ELSE "fetch"

\* afterLogin going on to the fetch whatever tryLogin returned
afterLoginAlwaysFetch(err) == "fetch"

\* ListConnected once tryLogin has returned err: return nil, err or go on
afterLogin(err) == IF ~err.isNil THEN "returned" ELSE "fetch"
loginReturn(err) == IF ~err.isNil THEN Returned(<<>>, err) ELSE Pending

\* listReturn reporting a failed logout
listReturnLogoutError(fetched, logoutResp) ==
    IF logoutResp.err.isNil
    THEN Returned(fetched.devices, fetched.err)
    ELSE Returned(<<>>, Errorf("failed logging out: ", logoutResp.err.text))

\* return devices, err of ListConnected, after logout got logoutResp
listReturn(fetched, logoutResp) == Returned(fetched.devices, fetched.err)

----------------------------------------------------------------------------
(* The state machine *)

Users == {<<"admin">>}
Passwords == {<<"pw1">>, <<"pw2">>}

\* no router client is in use
RouterIdle ==
    /\ user = EmptyStr
    /\ pass = EmptyStr
    /\ pc = "idle"
    /\ trace = <<>>
    /\ hashes = <<>>
    /\ finalHash = EmptyStr
    /\ loginRes = Pending
    /\ fetchRes = Pending
    /\ ret = Pending
    /\ calls = 0

\* nothing but the router client is running
MacIdle ==
    /\ macA = EmptyStr
    /\ macB = EmptyStr
    /\ macRes = [op |-> "none", n1 |-> EmptyStr, n2 |-> EmptyStr,
                 ab |-> FALSE, ba |-> FALSE, aa |-> FALSE]
TblIdle ==
    /\ tblItems = [slice |-> FALSE, elem |-> "other", fields |-> <<>>, rows |-> <<>>]
    /\ tblHeaders = [isNil |-> TRUE, h |-> <<>>]
    /\ tblRes = [done |-> FALSE, err |-> Nil, out |-> EmptyStr]
NoFile == [exists |-> FALSE, content |-> EmptyStr]
NotChecked == [done |-> FALSE, found |-> FALSE, err |-> Nil]
MainIdle ==
    /\ procIn = [args |-> <<>>, userFlag |-> EmptyStr, passFlag |-> EmptyStr,
                 env |-> [set |-> FALSE, v |-> EmptyStr], dotenv |-> NoFile,
                 tty |-> FALSE, stdin |-> [failed |-> TRUE, p |-> EmptyStr]]
    /\ mpc = "none"
    /\ mpass = EmptyStr
    /\ stdout = EmptyStr
    /\ exitCode = -1
    /\ checked = NotChecked
AuxIdle == MacIdle /\ TblIdle /\ MainIdle

\* NewHomeStationClient(baseURL, user, pass), no call made yet
Init ==
    /\ user \in Users
    /\ pass \in Passwords
    /\ pc = "idle"
    /\ trace = <<>>
    /\ hashes = <<>>
    /\ finalHash = EmptyStr
    /\ loginRes = Pending
    /\ fetchRes = Pending
    /\ ret = Pending
    /\ calls = 0
    /\ AuxIdle

\* a caller enters ListConnected
ListConnected ==
    /\ pc = "idle"
    /\ calls < MaxCalls
    /\ calls' = calls + 1
    /\ pc' = "challenge"
    /\ trace' = <<>>
    /\ hashes' = <<>>
    /\ finalHash' = EmptyStr
    /\ loginRes' = Pending
    /\ fetchRes' = Pending
    /\ ret' = Pending
    /\ UNCHANGED <<user, pass, auxVars>>

\* tryLogin: the challenge POST, the decoding of the salts, the two hashes
tryLoginChallenge ==
    /\ pc = "challenge"
    /\ \E resp \in ChallengeResponses :
        LET err == challengeError(resp)
            r == saltResp(resp.body)
            h == doubleHash(pass, r.Salt, r.SaltWebUI)
        IN  /\ trace' = Append(trace, doPostForm(LoginPath, CredForm(user, SeekSaltHash), resp))
            /\ IF err.isNil
               THEN /\ hashes' = <<[password |-> pass, salt |-> r.Salt],
                                   [password |-> h[1], salt |-> r.SaltWebUI]>>
                    /\ finalHash' = h[2]
                    /\ pc' = "submit"
                    /\ UNCHANGED <<loginRes, ret>>
               ELSE /\ loginRes' = Returned(<<>>, err)
                    /\ ret' = loginReturn(err)
                    /\ pc' = afterLogin(err)
                    /\ UNCHANGED <<hashes, finalHash>>
    /\ UNCHANGED <<user, pass, fetchRes, calls, auxVars>>

\* tryLogin: the credential POST and the reading of its result
tryLoginSubmit ==
    /\ pc = "submit"
    /\ \E resp \in SubmitResponses :
        LET err == submitError(resp)
        IN  /\ trace' = Append(trace, doPostForm(LoginPath, CredForm(user, finalHash), resp))
            /\ IF err.isNil
               THEN /\ pc' = "activate"
                    /\ UNCHANGED <<loginRes, ret>>
               ELSE /\ loginRes' = Returned(<<>>, err)
                    /\ ret' = loginReturn(err)
                    /\ pc' = afterLogin(err)
    /\ UNCHANGED <<user, pass, hashes, finalHash, fetchRes, calls, auxVars>>

\* activateSession sending no request
activateSessionNoRequest ==
    /\ pc = "activate"
    /\ loginRes' = Returned(<<>>, Nil)
    /\ pc' = "fetch"
    /\ UNCHANGED <<user, pass, trace, hashes, finalHash, fetchRes, ret, calls, auxVars>>

\* activateSession, then tryLogin returns
activateSession ==
    /\ pc = "activate"
    /\ \E resp \in DiscardedResponses :
        LET err == activatedResult(resp)
        IN  /\ trace' = Append(trace, doGet(MenuPath, resp))
            /\ loginRes' = Returned(<<>>, err)
            /\ ret' = loginReturn(err)
            /\ pc' = afterLogin(err)
    /\ UNCHANGED <<user, pass, hashes, finalHash, fetchRes, calls, auxVars>>

\* fetchHostTbl
fetchHostTbl ==
    /\ pc = "fetch"
    /\ \E resp \in HostTblResponses :
        /\ trace' = Append(trace, doGet(HostTblPath, resp))
        /\ fetchRes' = hostTblResult(resp)
    /\ pc' = "logout"
    /\ UNCHANGED <<user, pass, hashes, finalHash, loginRes, ret, calls, auxVars>>

\* logout waiting for a session that a failed fetch never gives
logoutBlocksAfterFailedFetch ==
    /\ pc = "logout"
    /\ fetchRes.err.isNil
    /\ \E resp \in DiscardedResponses :
        /\ trace' = Append(trace, doPostForm(LogoutPath, EmptyForm, resp))
        /\ ret' = listReturn(fetchRes, resp)
    /\ pc' = "returned"
    /\ UNCHANGED <<user, pass, hashes, finalHash, loginRes, fetchRes, calls, auxVars>>

\* logout skipped when the fetch failed
logoutOnlyAfterGoodFetch ==
    /\ pc = "logout"
    /\ IF fetchRes.err.isNil
       THEN \E resp \in DiscardedResponses :
               /\ trace' = Append(trace, doPostForm(LogoutPath, EmptyForm, resp))
               /\ ret' = Returned(fetchRes.devices, fetchRes.err)
       ELSE /\ trace' = trace
            /\ ret' = Returned(fetchRes.devices, fetchRes.err)
    /\ pc' = "returned"
    /\ UNCHANGED <<user, pass, hashes, finalHash, loginRes, fetchRes, calls, auxVars>>

\* logout, then ListConnected returns
logout ==
    /\ pc = "logout"
    /\ \E resp \in DiscardedResponses :
        /\ trace' = Append(trace, doPostForm(LogoutPath, EmptyForm, resp))
        /\ ret' = listReturn(fetchRes, resp)
    /\ pc' = "returned"
    /\ UNCHANGED <<user, pass, hashes, finalHash, loginRes, fetchRes, calls, auxVars>>

\* the caller has the result and may call again
Done ==
    /\ pc = "returned"
    /\ pc' = "idle"
    /\ UNCHANGED <<user, pass, trace, hashes, finalHash, loginRes, fetchRes, ret, calls, auxVars>>

Next ==
    \/ ListConnected
    \/ tryLoginChallenge
    \/ tryLoginSubmit
    \/ activateSession
    \/ fetchHostTbl
    \/ logout
    \/ Done

Spec == Init /\ [][Next]_vars

----------------------------------------------------------------------------
(* Vocabulary of the properties *)

LoginSucceeded == loginRes.done /\ loginRes.err.isNil
LoginFailed == loginRes.done /\ ~loginRes.err.isNil

\* the positions of the current call's requests to an endpoint
Sent(path) == {i \in 1..Len(trace) : trace[i].path = path}
Paths == [i \in 1..Len(trace) |-> trace[i].path]
Methods == [i \in 1..Len(trace) |-> trace[i].method]

\* the i-th request was answered with a JSON object
Answered(i) ==
    /\ Len(trace) >= i
    /\ trace[i].resp.err.isNil
    /\ trace[i].resp.body.kind = "object"

EmptyOrAbsent == {Absent, Str(EmptyStr)}
SaltMissing(body) == body.salt \in EmptyOrAbsent \/ body.saltwebui \in EmptyOrAbsent
MissingChallengeData ==
    {Err(<<"no salt returned from router">>),
     Err(<<"no saltwebui returned from router">>)}
LoginRejected == Err(<<"login failed with provided credentials">>)

\* the credential submit was answered with error == "ok"
SubmitOk == Answered(2) /\ trace[2].resp.body.error = Str(<<"ok">>)
SubmitBlocked ==
    /\ Answered(2)
    /\ trace[2].resp.body.error # Str(<<"ok">>)
    /\ trace[2].resp.body.message.t = "str"
    /\ Contains(trace[2].resp.body.message.s, MsgLogin150)

----------------------------------------------------------------------------
(* Properties *)

\* C1: when tryLogin returns an error, whatever its cause, the call sends
\* no request to the host-table endpoint and none to the logout endpoint,
\* and ListConnected returns that error with no devices.
C1_LoginErrorEndsCall ==
    LoginFailed =>
        /\ Sent(HostTblPath) = {}
        /\ Sent(LogoutPath) = {}
        /\ Sent(LoginPath) = 1..Len(trace)
        /\ pc \in {"returned", "idle"}
        /\ ret = Returned(<<>>, loginRes.err)

C1_Witness ==
    /\ pc = "returned"
    /\ LoginFailed
    /\ Len(trace) = 2
    /\ loginRes.err = LoginRejected

\* C2: after a successful login the requests of the call are login, login,
\* menu, hostTbl, logout in that order, with exactly one logout, sent once
\* the host-table GET has completed and before ListConnected returns,
\* whether the fetch succeeded or failed; the error returned is the fetch's.
C2_LogoutAfterFetch ==
    /\ (LoginSucceeded /\ ret.done) =>
        /\ Paths = <<LoginPath, LoginPath, MenuPath, HostTblPath, LogoutPath>>
        /\ Methods = <<"POST", "POST", "GET", "GET", "POST">>
        /\ fetchRes = hostTblResult(trace[4].resp)
        /\ ret.err = fetchRes.err
    /\ \A i \in Sent(LogoutPath) :
        /\ i = 5
        /\ trace[4].path = HostTblPath
        /\ fetchRes.done
    /\ (fetchRes.done /\ ~ret.done) => (pc = "logout" /\ Sent(LogoutPath) = {})
    /\ (LoginSucceeded /\ ~fetchRes.done) => (pc = "fetch" /\ ~ret.done)

C2_Witness ==
    /\ pc = "returned"
    /\ LoginSucceeded
    /\ ~ret.err.isNil
    /\ Sent(LogoutPath) = {5}

\* C3: ListConnected returns a non-empty device list only if, in the same
\* call, the credential submit was answered with error == "ok" and tryLogin
\* returned nil.
C3_DevicesOnlyAfterLogin ==
    (ret.done /\ ret.devices # <<>>) => (SubmitOk /\ LoginSucceeded)

C3_Witness ==
    /\ ret.done
    /\ Len(ret.devices) = 2
    /\ SubmitOk

\* C4 as stated: a challenge response whose salt or saltwebui is absent or
\* empty makes login fail with a missing-challenge-data error, with no hash
\* computed and that one request only.
C4_Original ==
    (Answered(1) /\ SaltMissing(trace[1].resp.body)) =>
        /\ loginRes.done
        /\ loginRes.err \in MissingChallengeData
        /\ hashes = <<>>
        /\ Len(trace) = 1

\* C4 amended: a challenge response whose salt or saltwebui is absent or
\* empty makes login fail with no hash computed and that one request only;
\* the error is a missing-challenge-data error when every field present in
\* the body is a string, and the salt-parse error otherwise.
C4_MissingSaltStopsLogin ==
    (Answered(1) /\ SaltMissing(trace[1].resp.body)) =>
        LET body == trace[1].resp.body
        IN  /\ LoginFailed
            /\ hashes = <<>>
            /\ finalHash = EmptyStr
            /\ Len(trace) = 1
            /\ ret.err = loginRes.err
            /\ IF Other \in {body.error, body.salt, body.saltwebui}
               THEN loginRes.err = Err(<<"failed parsing salt response: ", "cannot unmarshal">>)
               ELSE loginRes.err \in MissingChallengeData

C4_Witness ==
    /\ Answered(1)
    /\ trace[1].resp.body.error = Str(<<"ok">>)
    /\ trace[1].resp.body.salt = Str(EmptyStr)
    /\ trace[1].resp.body.saltwebui = Str(<<"w1">>)
    /\ loginRes.err = Err(<<"no salt returned from router">>)
    /\ pc = "returned"

\* C5: when the credential submit is answered with error == "ok", whatever
\* its message, exactly one GET goes to the menu endpoint and tryLogin
\* returns nil only after it; on every other outcome no menu GET is sent.
C5_MenuOnceOnOk ==
    /\ SubmitOk =>
        IF loginRes.done
        THEN LoginSucceeded /\ Sent(MenuPath) = {3} /\ trace[3].method = "GET"
        ELSE pc = "activate" /\ Sent(MenuPath) = {}
    /\ LoginSucceeded => SubmitOk
    /\ ~SubmitOk => Sent(MenuPath) = {}
    /\ LoginFailed => Sent(MenuPath) = {}

C5_Witness ==
    /\ SubmitOk
    /\ Contains(trace[2].resp.body.message.s, MsgLogin150)
    /\ LoginSucceeded
    /\ Sent(MenuPath) = {3}

\* C6: when the credential submit is answered with error != "ok" and a
\* string message containing MSG_LOGIN_150, tryLogin fails with the
\* active-session error, whose text ends with the router's message and so
\* contains MSG_LOGIN_150.
C6_BlockedCarriesMessage ==
    SubmitBlocked =>
        /\ LoginFailed
        /\ loginRes.err.text =
              <<"An active session exists. Logout first. ">> \o trace[2].resp.body.message.s
        /\ Contains(loginRes.err.text, MsgLogin150)
        /\ ret.err = loginRes.err

C6_Witness ==
    /\ SubmitBlocked
    /\ trace[2].resp.body.error = Str(<<"fail">>)
    /\ trace[2].resp.body.message = Str(<<"MSG_LOGIN_", "150", " please logout">>)
    /\ LoginFailed

\* C7: when the credential submit is answered with error != "ok" (or no
\* error field) and a message that is absent or does not contain
\* MSG_LOGIN_150, tryLogin fails with the generic rejected error.
C7_RejectedIsGeneric ==
    (/\ Len(trace) >= 2
     /\ trace[2].resp.err.isNil
     /\ trace[2].resp.body.error # Str(<<"ok">>)
     /\ ~(/\ trace[2].resp.body.message.t = "str"
          /\ Contains(trace[2].resp.body.message.s, MsgLogin150))) =>
        /\ loginRes.done
        /\ loginRes.err = LoginRejected
        /\ ret.err = LoginRejected

C7_Witness ==
    /\ Answered(2)
    /\ trace[2].resp.body.error = Absent
    /\ trace[2].resp.body.message = Str(<<"MSG_LOGIN_", "151">>)
    /\ loginRes.err = LoginRejected

\* C8: whatever the menu GET gets, a transport error or any body, tryLogin
\* returns nil and ListConnected goes on to the host-table GET.
C8_ActivateNeverFails ==
    Len(trace) >= 3 =>
        /\ trace[3].path = MenuPath
        /\ LoginSucceeded
        /\ \/ pc = "fetch" /\ Len(trace) = 3
           \/ Len(trace) >= 4 /\ trace[4].path = HostTblPath /\ trace[4].method = "GET"

C8_Witness ==
    /\ Len(trace) >= 4
    /\ ~trace[3].resp.err.isNil
    /\ trace[4].path = HostTblPath
    /\ LoginSucceeded

\* C9: whatever the logout POST gets, ListConnected returns exactly the
\* devices and the error that fetchHostTbl produced.
C9_LogoutOutcomeIgnored ==
    (ret.done /\ LoginSucceeded) =>
        /\ Len(trace) = 5
        /\ trace[5].path = LogoutPath
        /\ ret.devices = fetchRes.devices
        /\ ret.err = fetchRes.err

C9_Witness ==
    /\ ret.done
    /\ Len(trace) = 5
    /\ ~trace[5].resp.err.isNil
    /\ ret.err.isNil
    /\ ret.devices # <<>>

\* C10: when the host-table body decodes and its error field is not "ok"
\* (absent and empty included), the fetch fails with an error whose text
\* carries that status and with no devices, whatever host records the
\* envelope holds.
C10_NonOkEnvelopeFails ==
    (/\ Answered(4)
     /\ Other \notin {trace[4].resp.body.error, trace[4].resp.body.message}
     /\ trace[4].resp.body.error # Str(<<"ok">>)) =>
        LET status == FieldString(trace[4].resp.body.error)
        IN  /\ fetchRes.done
            /\ fetchRes.devices = <<>>
            /\ fetchRes.err = Err(<<"host table returned error: ">> \o status)
            /\ Contains(fetchRes.err.text, status)
            /\ ret.done => (ret.devices = <<>> /\ ret.err = fetchRes.err)

C10_Witness ==
    /\ Answered(4)
    /\ trace[4].resp.body.error = Str(<<"fail">>)
    /\ Len(trace[4].resp.body.hostTbl) = 2
    /\ ret.done
    /\ ret.devices = <<>>

\* the host-table GET was answered with an envelope that decodes and has
\* error == "ok"
FetchOk ==
    /\ Answered(4)
    /\ trace[4].resp.body.message # Other
    /\ trace[4].resp.body.error = Str(<<"ok">>)

\* C11: on a successful fetch the device list has the length and the order
\* of the router's hostTbl list, the i-th device carries the i-th record's
\* physaddress, ipaddress and hostname unchanged, and Active is true
\* exactly when the record's active string is "true".
C11_DevicesMirrorHostTbl ==
    FetchOk =>
        LET hostTbl == trace[4].resp.body.hostTbl
        IN  /\ fetchRes.done
            /\ fetchRes.err.isNil
            /\ Len(fetchRes.devices) = Len(hostTbl)
            /\ \A i \in 1..Len(hostTbl) :
                /\ fetchRes.devices[i].MAC = hostTbl[i].physaddress
                /\ fetchRes.devices[i].IP = hostTbl[i].ipaddress
                /\ fetchRes.devices[i].Hostname = hostTbl[i].hostname
                /\ fetchRes.devices[i].Active = (hostTbl[i].active = <<"true">>)
            /\ ret.done => ret.devices = fetchRes.devices

C11_Witness ==
    /\ FetchOk
    /\ ret.done
    /\ Len(ret.devices) = 2
    /\ trace[4].resp.body.hostTbl[1].active = <<"TRUE">>
    /\ trace[4].resp.body.hostTbl[2].active = <<"true">>
    /\ ret.devices[1].MAC = <<"a", "d">>
    /\ ~ret.devices[1].Active
    /\ ret.devices[2].MAC = <<"A", ":", "B">>
    /\ ret.devices[2].Active

\* C12: an envelope with error == "ok" and an empty or absent hostTbl list
\* makes ListConnected return an empty device set and no error.
C12_EmptyHostTblIsSuccess ==
    (FetchOk /\ trace[4].resp.body.hostTbl = <<>>) =>
        /\ fetchRes = Returned(<<>>, Nil)
        /\ ret.done => (ret.err.isNil /\ Len(ret.devices) = 0)

C12_Witness ==
    /\ FetchOk
    /\ trace[4].resp.body.hostTbl = <<>>
    /\ pc = "returned"
    /\ ret = Returned(<<>>, Nil)

\* C13: the challenge POST carries the configured username and the
\* sentinel password; the credential POST carries the configured username
\* and pbkdf2Hex(pbkdf2Hex(pass, salt), saltwebui) for the salt and the
\* saltwebui of the challenge response of the same call.
C13_SubmitCarriesDoubleHash ==
    /\ Len(trace) >= 1 =>
        /\ trace[1].method = "POST"
        /\ trace[1].path = LoginPath
        /\ FormKeys(trace[1].form) = {"username", "password"}
        /\ FormGet(trace[1].form, "username") = user
        /\ FormGet(trace[1].form, "password") = <<"seeksalthash">>
    /\ Len(trace) >= 2 =>
        LET salt == trace[1].resp.body.salt.s
            saltwebui == trace[1].resp.body.saltwebui.s
        IN  /\ trace[2].method = "POST"
            /\ trace[2].path = LoginPath
            /\ FormKeys(trace[2].form) = {"username", "password"}
            /\ FormGet(trace[2].form, "username") = user
            /\ FormGet(trace[2].form, "password") =
                  <<"pbkdf2(", "pbkdf2(">> \o pass \o <<",">> \o salt \o <<")", ",">>
                      \o saltwebui \o <<")">>
            /\ hashes = <<[password |-> pass, salt |-> salt],
                          [password |-> pbkdf2Hex(pass, salt), salt |-> saltwebui]>>

C13_Witness ==
    /\ calls = 2
    /\ Len(trace) >= 2
    /\ trace[1].resp.body.salt = Str(<<"s2">>)
    /\ pass = <<"pw2">>
    /\ FormGet(trace[2].form, "password") =
          <<"pbkdf2(", "pbkdf2(", "pw2", ",", "s2", ")", ",", "w1", ")">>

----------------------------------------------------------------------------
(* normalizeMAC and MatchMAC.  In the strings these functions see, every   *)
(* token is one character.                                                 *)

MaxMacLen == 3
MaxMatcherLen == 2

UpperCase == <<"A", "B", "C", "D", "E", "F", "G", "H", "I", "J", "K", "L", "M",
               "N", "O", "P", "Q", "R", "S", "T", "U", "V", "W", "X", "Y", "Z">>
LowerCase == <<"a", "b", "c", "d", "e", "f", "g", "h", "i", "j", "k", "l", "m",
               "n", "o", "p", "q", "r", "s", "t", "u", "v", "w", "x", "y", "z">>

\* c == ':' || c == '-' || c == '.' || c == ' '
isSeparator(c) == c = ":" \/ c = "-" \/ c = "." \/ c = " "

\* toLower leaving the capitals as they are
toLowerKeepsCapitals(c) == c

\* if c >= 'A' && c <= 'Z' { c = c - 'A' + 'a' }
toLower(c) ==
    IF \E i \in 1..Len(UpperCase) : UpperCase[i] = c
    THEN LowerCase[CHOOSE i \in 1..Len(UpperCase) : UpperCase[i] = c]
    ELSE c

\* the loop of normalizeMAC from index i on, with b the bytes kept so far
RECURSIVE normalizeLoop(_, _, _)
normalizeLoop(mac, i, b) ==
    IF i > Len(mac) THEN b
    ELSE IF isSeparator(mac[i]) THEN normalizeLoop(mac, i + 1, b)
    ELSE normalizeLoop(mac, i + 1, Append(b, toLower(mac[i])))

normalizeMAC(mac) == normalizeLoop(mac, 1, <<>>)

\* MatchMAC normalizing its first argument only
MatchMACLeftOnly(a, b) == normalizeMAC(a) = b

\* MatchMAC(a, b)
MatchMAC(a, b) == normalizeMAC(a) = normalizeMAC(b)

MacAlphabet == {":", "-", ".", " ", "A", "a", "1"}

MacStrings == SeqsUpTo(MacAlphabet, MaxMacLen)
MatcherAlphabet == {"-", "A", "a", "1"}
MatcherStrings == SeqsUpTo(MatcherAlphabet, MaxMatcherLen)

InitMAC ==
    /\ macA \in MacStrings
    /\ macB \in MatcherStrings
    /\ macRes = [op |-> "none", n1 |-> EmptyStr, n2 |-> EmptyStr,
                 ab |-> FALSE, ba |-> FALSE, aa |-> FALSE]
    /\ RouterIdle
    /\ TblIdle
    /\ MainIdle

\* normalizeMAC applied to macA, and again to its result
ApplyNormalize ==
    /\ macRes.op = "none"
    /\ macRes' = [macRes EXCEPT !.op = "normalize",
                                !.n1 = normalizeMAC(macA),
                                !.n2 = normalizeMAC(normalizeMAC(macA))]
    /\ UNCHANGED <<macA, macB, routerVars, tblVars, mainVars>>

\* MatchMAC applied to the two strings in both orders, and to macA twice
ApplyMatch ==
    /\ macRes.op = "none"
    /\ macRes' = [macRes EXCEPT !.op = "match",
                                !.ab = MatchMAC(macA, macB),
                                !.ba = MatchMAC(macB, macA),
                                !.aa = MatchMAC(macA, macA)]
    /\ UNCHANGED <<macA, macB, routerVars, tblVars, mainVars>>

NextMAC == ApplyNormalize \/ ApplyMatch

SpecMAC == InitMAC /\ [][NextMAC]_vars

\* the canonical form of a string: its non-separator characters, in order,
\* with the ASCII capitals replaced by their small letters
NotSeparator(c) == c \notin {":", "-", ".", " "}
Small(c) ==
    CASE c = "A" -> "a" [] c = "B" -> "b" [] c = "C" -> "c"
      [] c = "P" -> "p" [] c = "Z" -> "z" [] OTHER -> c
Canonical(s) ==
    LET kept == SelectSeq(s, NotSeparator)
    IN  [i \in 1..Len(kept) |-> Small(kept[i])]

\* C14: normalizeMAC returns a result for every string; applying it to
\* its own result changes nothing; the result holds no separator and no
\* ASCII capital, and is the input's other characters in their order,
\* capitals lowered.
C14_NormalizeIdempotent ==
    /\ (macRes.op = "none" /\ macB = EmptyStr) => ENABLED ApplyNormalize
    /\ macRes.op = "normalize" =>
        /\ macRes.n2 = macRes.n1
        /\ \A i \in 1..Len(macRes.n1) :
            /\ macRes.n1[i] \notin {":", "-", ".", " "}
            /\ macRes.n1[i] \notin {UpperCase[k] : k \in 1..26}
        /\ macRes.n1 = Canonical(macA)

C14_Witness ==
    /\ macRes.op = "normalize"
    /\ macA = <<"A", ":", "1">>
    /\ macRes.n1 = <<"a", "1">>
    /\ macRes.n2 = <<"a", "1">>

\* C15: MatchMAC(a, b) is true exactly when a and b have the same
\* canonical form; it is reflexive and symmetric, and so blind to
\* separators and to the case of ASCII letters.
C15_MatchIsNormalizedEquality ==
    macRes.op = "match" =>
        /\ macRes.ab = (Canonical(macA) = Canonical(macB))
        /\ macRes.ab = macRes.ba
        /\ macRes.aa

C15_Witness ==
    /\ macRes.op = "match"
    /\ macA = <<"A", ":", "1">>
    /\ macB = <<"a", "1">>
    /\ macRes.ab
    /\ macRes.ba

----------------------------------------------------------------------------
(* PrintStructTable.  Every token of a cell, of a header and of the output *)
(* is one byte; "\n" is the line feed.                                     *)

MaxRows == 2

\* a field value: a string or a boolean
StringValue(s) == [t |-> "string", s |-> s, b |-> FALSE]
BoolValue(b) == [t |-> "bool", s |-> EmptyStr, b |-> b]

\* fmt.Sprint(fv.Interface())
Sprint(v) ==
    IF v.t = "bool"
    THEN IF v.b THEN <<"t", "r", "u", "e">> ELSE <<"f", "a", "l", "s", "e">>
    ELSE v.s

\* strings.Repeat(c, n)
Repeat(c, n) == [i \in 1..n |-> c]

\* padRight(s, width)
padRight(s, width) ==
    IF Len(s) >= width THEN s ELSE s \o Repeat(" ", width - Len(s))

Max(a, b) == IF a > b THEN a ELSE b

\* the loop collecting the indices of the exported fields
RECURSIVE exportedFrom(_, _)
exportedFrom(fields, i) ==
    IF i > Len(fields) THEN <<>>
    ELSE IF fields[i] THEN <<i>> \o exportedFrom(fields, i + 1)
    ELSE exportedFrom(fields, i + 1)

\* the row of strings of one slice element: empty cells for a nil pointer
rowOf(element, fieldIndices) ==
    [j \in 1..Len(fieldIndices) |->
        IF element.isNil THEN EmptyStr ELSE Sprint(element.cells[fieldIndices[j]])]

\* the loop gathering the rows
gatherRows(elements, fieldIndices) ==
    [i \in 1..Len(elements) |-> rowOf(elements[i], fieldIndices)]

\* the column widths after the rows from index i on, starting from widths;
\* a nil pointer's row leaves them as they are
RECURSIVE widthsFrom(_, _, _, _)
widthsFrom(elements, fieldIndices, i, widths) ==
    IF i > Len(elements) THEN widths
    ELSE IF elements[i].isNil
    THEN widthsFrom(elements, fieldIndices, i + 1, widths)
    ELSE widthsFrom(elements, fieldIndices, i + 1,
            [j \in 1..Len(widths) |->
                Max(widths[j], Len(Sprint(elements[i].cells[fieldIndices[j]])))])

\* totalWidth
RECURSIVE totalFrom(_, _)
totalFrom(widths, i) ==
    IF i > Len(widths) THEN 0
    ELSE (IF i > 1 THEN 3 ELSE 0) + widths[i] + totalFrom(widths, i + 1)

\* one printed line: the padded cells joined by " | ", then the line feed
\* cellsFrom leaving the last column unpadded
RECURSIVE cellsFromLastUnpadded(_, _, _)
cellsFromLastUnpadded(cells, widths, i) ==
    IF i > Len(cells) THEN <<"\n">>
    ELSE (IF i > 1 THEN <<" ", "|", " ">> ELSE <<>>)
            \o (IF i = Len(cells) THEN cells[i] ELSE padRight(cells[i], widths[i]))
            \o cellsFromLastUnpadded(cells, widths, i + 1)

RECURSIVE cellsFrom(_, _, _)
cellsFrom(cells, widths, i) ==
    IF i > Len(cells) THEN <<"\n">>
    ELSE (IF i > 1 THEN <<" ", "|", " ">> ELSE <<>>)
            \o padRight(cells[i], widths[i]) \o cellsFrom(cells, widths, i + 1)
printLine(cells, widths) == cellsFrom(cells, widths, 1)

RECURSIVE printRows(_, _, _)
printRows(rows, widths, i) ==
    IF i > Len(rows) THEN <<>>
    ELSE printLine(rows[i], widths) \o printRows(rows, widths, i + 1)

Written(err, out) == [done |-> TRUE, err |-> err, out |-> out]

\* what PrintStructTable writes once its arguments have been validated
printValid(items, headers, fieldIndices) ==
    LET colCount == Len(fieldIndices)
        headerWidths == [i \in 1..colCount |->
                            IF headers.isNil THEN 0 ELSE Len(headers.h[i])]
        rows == gatherRows(items.rows, fieldIndices)
        colWidths == widthsFrom(items.rows, fieldIndices, 1, headerWidths)
        totalWidth == totalFrom(colWidths, 1)
        head == IF headers.isNil THEN <<>>
                ELSE printLine(headers.h, colWidths)
                        \o Repeat("-", totalWidth) \o <<"\n">>
    IN  Written(Nil, head \o printRows(rows, colWidths, 1))

\* PrintStructTable without the check for exported fields
PrintStructTableNoFieldCheck(items, headers) ==
    LET fieldIndices == exportedFrom(items.fields, 1)
    IN  IF ~items.slice
        THEN Written(Err(<<"items must be a slice">>), EmptyStr)
        ELSE IF items.elem \notin {"struct", "ptr"}
        THEN Written(Err(<<"slice elements must be structs or pointers to structs">>), EmptyStr)
        ELSE IF ~headers.isNil /\ Len(headers.h) # Len(fieldIndices)
        THEN Written(Err(<<"headers length must match number of exported fields">>), EmptyStr)
        ELSE printValid(items, headers, fieldIndices)

\* PrintStructTable(w, items, headers)
PrintStructTable(items, headers) ==
    LET fieldIndices == exportedFrom(items.fields, 1)
    IN  IF ~items.slice
        THEN Written(Err(<<"items must be a slice">>), EmptyStr)
        ELSE IF items.elem \notin {"struct", "ptr"}
        THEN Written(Err(<<"slice elements must be structs or pointers to structs">>), EmptyStr)
        ELSE IF Len(fieldIndices) = 0
        THEN Written(Err(<<"no exported fields found in struct">>), EmptyStr)
        ELSE IF ~headers.isNil /\ Len(headers.h) # Len(fieldIndices)
        THEN Written(Err(<<"headers length must match number of exported fields">>), EmptyStr)
        ELSE printValid(items, headers, fieldIndices)

CellValues == {StringValue(EmptyStr), StringValue(<<"a", "b">>),
               StringValue(<<"a", "\n">>), BoolValue(TRUE)}
HeaderLists ==
    {<<>>,
     << <<"H">> >>,
     << <<"H", "\n">> >>,
     << <<"I", "D", "s">>, <<"H">> >>,
     << <<"H">>, <<"H", "\n">> >>,
     << <<"H">>, <<"I", "D", "s">>, <<"H">> >>}
FieldLayouts == {<<>>, <<FALSE>>, <<TRUE>>, <<TRUE, TRUE>>, <<FALSE, TRUE>>}

\* the elements a slice of structs, or of pointers to structs, may hold
Elements(elem, fields) ==
    {[isNil |-> FALSE, cells |-> c] : c \in [1..Len(fields) -> CellValues]}
        \cup (IF elem = "ptr" THEN {[isNil |-> TRUE, cells |-> <<>>]} ELSE {})

TableItems ==
    {[slice |-> FALSE, elem |-> "other", fields |-> <<>>, rows |-> <<>>],
     [slice |-> TRUE, elem |-> "other", fields |-> <<>>, rows |-> <<>>]}
    \cup UNION {UNION {{[slice |-> TRUE, elem |-> e, fields |-> f, rows |-> r] :
                          r \in SeqsUpTo(Elements(e, f), MaxRows)} :
                       f \in FieldLayouts} :
                e \in {"struct", "ptr"}}

TableHeaders ==
    {[isNil |-> TRUE, h |-> <<>>]}
        \cup {[isNil |-> FALSE, h |-> h] : h \in HeaderLists}

InitTable ==
    /\ tblItems \in TableItems
    /\ tblHeaders \in TableHeaders
    /\ tblRes = [done |-> FALSE, err |-> Nil, out |-> EmptyStr]
    /\ RouterIdle
    /\ MacIdle
    /\ MainIdle

\* a call of PrintStructTable on a writer nothing was written to
CallPrintStructTable ==
    /\ ~tblRes.done
    /\ tblRes' = PrintStructTable(tblItems, tblHeaders)
    /\ UNCHANGED <<tblItems, tblHeaders, routerVars, macVars, mainVars>>

NextTable == CallPrintStructTable

SpecTable == InitTable /\ [][NextTable]_vars

\* the lines of an output, each ended by a line feed
RECURSIVE LinesFrom(_, _, _)
LinesFrom(out, i, line) ==
    IF i > Len(out) THEN (IF line = <<>> THEN <<>> ELSE <<line>>)
    ELSE IF out[i] = "\n" THEN <<line>> \o LinesFrom(out, i + 1, <<>>)
    ELSE LinesFrom(out, i + 1, Append(line, out[i]))
Lines(out) == LinesFrom(out, 1, <<>>)

ExportedCount(fields) == Cardinality({i \in 1..Len(fields) : fields[i]})
\* the position of the j-th exported field
ExportedAt(fields, j) ==
    CHOOSE i \in 1..Len(fields) :
        fields[i] /\ Cardinality({k \in 1..i : fields[k]}) = j

ValidTable(items, headers) ==
    /\ items.slice
    /\ items.elem \in {"struct", "ptr"}
    /\ ExportedCount(items.fields) > 0
    /\ headers.isNil \/ Len(headers.h) = ExportedCount(items.fields)

\* the text of column j of element i: empty for a nil pointer
CellText(items, i, j) ==
    IF items.rows[i].isNil THEN EmptyStr
    ELSE Sprint(items.rows[i].cells[ExportedAt(items.fields, j)])

\* no printed cell and no header holds a line feed
NoLineFeed(items, headers) ==
    /\ \A i \in 1..Len(items.rows) : \A j \in 1..ExportedCount(items.fields) :
        \A k \in 1..Len(CellText(items, i, j)) : CellText(items, i, j)[k] # "\n"
    /\ \A j \in 1..Len(headers.h) :
        \A k \in 1..Len(headers.h[j]) : headers.h[j][k] # "\n"

\* the width of column j: the longest of its header and its cell texts
ColumnWidth(items, headers, j) ==
    LET lens == {Len(CellText(items, i, j)) : i \in 1..Len(items.rows)}
                    \cup {IF headers.isNil THEN 0 ELSE Len(headers.h[j])}
    IN  CHOOSE m \in lens : \A x \in lens : m >= x

\* the line of the given texts, each padded with blanks to its column's
\* width, joined by " | "
RECURSIVE ExpectedLine(_, _, _, _)
ExpectedLine(items, headers, texts, j) ==
    IF j > Len(texts) THEN <<>>
    ELSE (IF j > 1 THEN <<" ", "|", " ">> ELSE <<>>)
            \o texts[j]
            \o [k \in 1..(ColumnWidth(items, headers, j) - Len(texts[j])) |-> " "]
            \o ExpectedLine(items, headers, texts, j + 1)

\* the shape of the table written for valid arguments
TableShape(items, headers, out) ==
    LET lines == Lines(out)
        n == Len(items.rows)
        cols == ExportedCount(items.fields)
        first == IF headers.isNil THEN 0 ELSE 2
    IN  /\ Len(lines) = n + first
        /\ ~headers.isNil =>
            /\ lines[1] = ExpectedLine(items, headers, headers.h, 1)
            /\ Len(lines[2]) = Len(lines[1])
            /\ \A k \in 1..Len(lines[2]) : lines[2][k] = "-"
            /\ \A i \in 1..Len(lines) : Len(lines[i]) = Len(lines[1])
        /\ \A i \in 1..n :
            lines[first + i] =
                ExpectedLine(items, headers,
                    [j \in 1..cols |-> CellText(items, i, j)], 1)

\* C19: PrintStructTable returns an error and writes nothing when items is
\* not a slice, when its elements are neither structs nor pointers to
\* structs, when the struct has no exported field, and when headers is
\* non-nil with a length other than the number of exported fields.
C19_InvalidWritesNothing ==
    (tblRes.done /\ ~ValidTable(tblItems, tblHeaders)) =>
        /\ ~tblRes.err.isNil
        /\ tblRes.out = EmptyStr

C19_Witness ==
    /\ tblRes.done
    /\ tblItems.slice
    /\ tblItems.elem = "struct"
    /\ tblItems.fields = <<TRUE, TRUE>>
    /\ Len(tblItems.rows) = 2
    /\ tblHeaders = [isNil |-> FALSE, h |-> <<<<"H">>>>]
    /\ ~tblRes.err.isNil
    /\ tblRes.out = EmptyStr

\* C20 as stated: for every valid slice of N elements the output has N + 2
\* lines with headers (header row, dashes of the header row's length, one
\* padded row per element in order, all lines of one length) and N lines
\* without.
C20_Original ==
    (tblRes.done /\ ValidTable(tblItems, tblHeaders)) =>
        /\ tblRes.err.isNil
        /\ TableShape(tblItems, tblHeaders, tblRes.out)

\* C20 amended: the same, for slices and headers none of whose printed
\* texts holds a line feed.
C20_TableShape ==
    (/\ tblRes.done
     /\ ValidTable(tblItems, tblHeaders)
     /\ NoLineFeed(tblItems, tblHeaders)) =>
        /\ tblRes.err.isNil
        /\ TableShape(tblItems, tblHeaders, tblRes.out)

C20_Witness ==
    /\ tblRes.done
    /\ tblItems.elem = "ptr"
    /\ tblItems.fields = <<TRUE, TRUE>>
    /\ Len(tblItems.rows) = 2
    /\ tblItems.rows[1].isNil
    /\ ~tblItems.rows[2].isNil
    /\ tblItems.rows[2].cells = <<StringValue(<<"a", "b">>), BoolValue(TRUE)>>
    /\ tblHeaders = [isNil |-> FALSE, h |-> <<<<"I", "D", "s">>, <<"H">>>>]
    /\ Lines(tblRes.out) =
          << <<"I", "D", "s", " ", "|", " ", "H", " ", " ", " ">>,
             <<"-", "-", "-", "-", "-", "-", "-", "-", "-", "-">>,
             <<" ", " ", " ", " ", "|", " ", " ", " ", " ", " ">>,
             <<"a", "b", " ", " ", "|", " ", "t", "r", "u", "e">> >>

----------------------------------------------------------------------------
(* main and the commands of internal/cli *)

PassName == "AM_I_HOME_ROUTER_PASS"
RouterHost == <<"http://192.168.0.1">>

\* a ListConnected call of the client, as the commands see it through the
\* RouterClient interface: every result the call can end with
LoginErrors ==
    ({challengeError(r) : r \in ChallengeResponses}
        \cup {submitError(r) : r \in SubmitResponses}) \ {Nil}
ClientResults ==
    {loginReturn(e) : e \in LoginErrors}
        \cup {listReturn(hostTblResult(r), l) :
                r \in HostTblResponses, l \in DiscardedResponses}

isSpace(c) == c \in {" ", "\t", "\r", "\n"}

\* strings.TrimSpace(s)
RECURSIVE TrimLeft(_)
TrimLeft(s) ==
    IF s # <<>> /\ isSpace(s[1]) THEN TrimLeft(Tail(s)) ELSE s
RECURSIVE TrimRight(_)
TrimRight(s) ==
    IF s # <<>> /\ isSpace(s[Len(s)]) THEN TrimRight(SubSeq(s, 1, Len(s) - 1)) ELSE s
TrimSpace(s) == TrimRight(TrimLeft(s))

\* strings.SplitSeq(s, "\n"): the pieces between the line feeds
RECURSIVE splitFrom(_, _, _)
splitFrom(s, i, piece) ==
    IF i > Len(s) THEN <<piece>>
    ELSE IF s[i] = "\n" THEN <<piece>> \o splitFrom(s, i + 1, <<>>)
    ELSE splitFrom(s, i + 1, Append(piece, s[i]))
SplitLines(s) == splitFrom(s, 1, <<>>)

\* the quotes around a value of at least two characters are dropped
unquote(val) ==
    IF /\ Len(val) >= 2
       /\ \/ val[1] = "'" /\ val[Len(val)] = "'"
          \/ val[1] = "\"" /\ val[Len(val)] = "\""
    THEN SubSeq(val, 2, Len(val) - 1)
    ELSE val

\* the value a line of the .env file gives to the password, empty if none
lineValue(rawLine) ==
    LET line == TrimSpace(rawLine)
        eqs == {i \in 1..Len(line) : line[i] = "="}
        eq == CHOOSE i \in eqs : \A k \in eqs : i <= k
    IN  IF line = <<>> \/ line[1] = "#" THEN EmptyStr
        ELSE IF eqs = {} THEN EmptyStr
        ELSE IF TrimSpace(SubSeq(line, 1, eq - 1)) # <<PassName>> THEN EmptyStr
        ELSE unquote(TrimSpace(SubSeq(line, eq + 1, Len(line))))

\* the loop over the lines of the .env file, from line i on
RECURSIVE dotEnvFrom(_, _)
dotEnvFrom(lines, i) ==
    IF i > Len(lines) THEN EmptyStr
    ELSE IF lineValue(lines[i]) # EmptyStr THEN lineValue(lines[i])
    ELSE dotEnvFrom(lines, i + 1)

\* os.ReadFile(".env") and the parse of its content
dotEnvPass(file) ==
    IF ~file.exists THEN EmptyStr ELSE dotEnvFrom(SplitLines(file.content), 1)

\* lookupPass reading the .env file before the environment
lookupPassFileFirst(passFlag, env, file) ==
    IF passFlag # EmptyStr THEN passFlag
    ELSE IF dotEnvPass(file) # EmptyStr THEN dotEnvPass(file)
    ELSE IF env.set /\ env.v # EmptyStr THEN env.v
    ELSE EmptyStr

\* *pass after the flag, the environment and the .env file were looked at
lookupPass(passFlag, env, file) ==
    IF passFlag # EmptyStr THEN passFlag
    ELSE IF env.set /\ env.v # EmptyStr THEN env.v
    ELSE dotEnvPass(file)

\* checkFrom taking inactive devices too
RECURSIVE checkFromAnyDevice(_, _, _)
checkFromAnyDevice(devs, i, matcher) ==
    IF i > Len(devs) THEN FALSE
    ELSE IF \/ MatchMAC(devs[i].MAC, matcher)
            \/ devs[i].Hostname = matcher
            \/ devs[i].IP = matcher
    THEN TRUE
    ELSE checkFromAnyDevice(devs, i + 1, matcher)

\* the loop of CheckByMatcher over devs, from index i on
RECURSIVE checkFrom(_, _, _)
checkFrom(devs, i, matcher) ==
    IF i > Len(devs) THEN FALSE
    ELSE IF /\ devs[i].Active
            /\ \/ MatchMAC(devs[i].MAC, matcher)
               \/ devs[i].Hostname = matcher
               \/ devs[i].IP = matcher
    THEN TRUE
    ELSE checkFrom(devs, i + 1, matcher)

\* CheckByMatcher(c, matcher), listed being what c.ListConnected returned
CheckByMatcher(listed, matcher) ==
    IF ~listed.err.isNil
    THEN [done |-> TRUE, found |-> FALSE, err |-> listed.err]
    ELSE [done |-> TRUE, found |-> checkFrom(listed.devices, 1, matcher), err |-> Nil]

\* checkExit exiting with 1 on an error
checkExitErrorAsAbsent(res) == IF res.found THEN 0 ELSE 1

\* the exit code of the check command
checkExit(res) == IF ~res.err.isNil THEN 2 ELSE IF res.found THEN 0 ELSE 1

\* fmt.Println(found)
printFound(res) ==
    IF ~res.err.isNil THEN EmptyStr ELSE Sprint(BoolValue(res.found)) \o <<"\n">>

\* the slice ListDevices prints
deviceItems(devs) ==
    [slice |-> TRUE, elem |-> "struct", fields |-> <<TRUE, TRUE, TRUE, TRUE>>,
     rows |-> [i \in 1..Len(devs) |->
        [isNil |-> FALSE,
         cells |-> <<StringValue(devs[i].MAC), StringValue(devs[i].IP),
                     StringValue(devs[i].Hostname), BoolValue(devs[i].Active)>>]]]

\* the slice ListActive prints
activeItems(devs) ==
    LET isActive(d) == d.Active
        active == SelectSeq(devs, isActive)
    IN  [slice |-> TRUE, elem |-> "struct", fields |-> <<TRUE, TRUE, TRUE>>,
         rows |-> [i \in 1..Len(active) |->
            [isNil |-> FALSE,
             cells |-> <<StringValue(active[i].MAC), StringValue(active[i].IP),
                         StringValue(active[i].Hostname)>>]]]

MACHeader == <<"M", "A", "C">>
IPHeader == <<"I", "P">>
HostnameHeader == <<"H", "o", "s", "t", "n", "a", "m", "e">>
ActiveHeader == <<"A", "c", "t", "i", "v", "e">>

\* ListDevices(c) and ListActive(c): the error returned and the table printed
ListDevices(listed) ==
    IF ~listed.err.isNil THEN Written(listed.err, EmptyStr)
    ELSE PrintStructTable(deviceItems(listed.devices),
            [isNil |-> FALSE, h |-> <<MACHeader, IPHeader, HostnameHeader, ActiveHeader>>])
ListActive(listed) ==
    IF ~listed.err.isNil THEN Written(listed.err, EmptyStr)
    ELSE PrintStructTable(activeItems(listed.devices),
            [isNil |-> FALSE, h |-> <<MACHeader, IPHeader, HostnameHeader>>])

\* what the process is started with: the arguments after the flags, the
\* -user and -pass flags, the environment, the .env file of the working
\* directory, whether stdin is a terminal and what term.ReadPassword yields
Matchers ==
    {<<"a", "b">>, <<"A", "-", "C">>, <<"p", "c">>, <<"P", "C">>,
     <<"1", ".", "5">>, <<"1", ".", "6">>, <<>>}
ArgLists ==
    {<<>>, <<<<"list">>>>, <<<<"list-all">>>>, <<<<"bogus">>>>, <<<<"check">>>>}
        \cup {<< <<"check">>, m >> : m \in Matchers}
UserFlags == {<<"admin">>, <<" ">>}
PassFlags == {EmptyStr, <<"f">>}
Unset == [set |-> FALSE, v |-> EmptyStr]
Environments == {Unset, [set |-> TRUE, v |-> EmptyStr], [set |-> TRUE, v |-> <<"e">>]}
File(content) == [exists |-> TRUE, content |-> content]
DotEnvFiles ==
    {NoFile,
     File(<<>>),
     File(<<PassName, "=", "d">>),
     File(<<"#", PassName, "=", "c", "\n",
            " ", PassName, " ", "=", " ", "'", "d", "'", " ", "\n">>),
     File(<<PassName, "=", "\n", PassName, "=", "d", "=", "2">>),
     File(<<"OTHER", "=", "o", "\n", PassName, "\n", PassName, "=", "\"", "\"">>),
     File(<<PassName, "=", "'", "d", "\n", PassName, "=", "x">>)}
Typed(p) == [failed |-> FALSE, p |-> p]
ReadFailure == [failed |-> TRUE, p |-> EmptyStr]
StdinReads == {ReadFailure, Typed(EmptyStr), Typed(<<"t">>)}

InitMain ==
    /\ RouterIdle
    /\ MacIdle
    /\ TblIdle
    /\ procIn \in [args : ArgLists, userFlag : UserFlags, passFlag : PassFlags,
                   env : Environments, dotenv : DotEnvFiles, tty : BOOLEAN,
                   stdin : StdinReads]
    /\ mpc = "start"
    /\ mpass = EmptyStr
    /\ stdout = EmptyStr
    /\ exitCode = -1
    /\ checked = NotChecked

\* os.Exit(code)
Exit(code) ==
    /\ mpc' = "exited"
    /\ exitCode' = code

\* main up to the check of the -user flag
mainStart ==
    /\ mpc = "start"
    /\ IF Len(procIn.args) = 0 THEN Exit(0)
       ELSE IF TrimSpace(procIn.userFlag) = EmptyStr THEN Exit(2)
       ELSE mpc' = "password" /\ UNCHANGED exitCode
    /\ UNCHANGED <<procIn, mpass, stdout, checked, routerVars, macVars, tblVars>>

\* if *pass == "" { ... } up to the call of term.ReadPassword
resolvePassword ==
    /\ mpc = "password"
    /\ LET p == lookupPass(procIn.passFlag, procIn.env, procIn.dotenv)
       IN  IF p # EmptyStr
           THEN /\ mpass' = p
                /\ mpc' = "client"
                /\ UNCHANGED <<stdout, exitCode>>
           ELSE IF procIn.tty
           THEN /\ stdout' = stdout \o <<"Password for ">> \o procIn.userFlag
                                \o <<"@">> \o RouterHost \o <<": ">>
                /\ mpc' = "prompt"
                /\ UNCHANGED <<mpass, exitCode>>
           ELSE /\ Exit(2)
                /\ UNCHANGED <<mpass, stdout>>
    /\ UNCHANGED <<procIn, checked, routerVars, macVars, tblVars>>

\* p, err := term.ReadPassword(...) and what follows it
readPassword ==
    /\ mpc = "prompt"
    /\ stdout' = stdout \o <<"\n">>
    /\ IF procIn.stdin.failed
       THEN /\ Exit(2)
            /\ UNCHANGED mpass
       ELSE /\ mpass' = procIn.stdin.p
            /\ mpc' = "client"
            /\ UNCHANGED exitCode
    /\ UNCHANGED <<procIn, checked, routerVars, macVars, tblVars>>

\* hs, err := router.NewHomeStationClient(*routerHost, *user, *pass)
newClient ==
    /\ mpc = "client"
    /\ user' = procIn.userFlag
    /\ pass' = mpass
    /\ mpc' = "command"
    /\ UNCHANGED <<pc, trace, hashes, finalHash, loginRes, fetchRes, ret, calls>>
    /\ UNCHANGED <<procIn, mpass, stdout, exitCode, checked, macVars, tblVars>>

\* hs.ListConnected() called by a command: it returns listed
callListConnected(listed) ==
    /\ ret' = listed
    /\ calls' = calls + 1
    /\ UNCHANGED <<user, pass, pc, trace, hashes, finalHash, loginRes, fetchRes>>

\* case "list-all"
cmdListAll ==
    /\ mpc = "command"
    /\ procIn.args[1] = <<"list-all">>
    /\ \E listed \in ClientResults :
        /\ callListConnected(listed)
        /\ stdout' = stdout \o ListDevices(listed).out
        /\ Exit(IF ListDevices(listed).err.isNil THEN 0 ELSE 2)
    /\ UNCHANGED <<procIn, mpass, checked, macVars, tblVars>>

\* case "list"
cmdList ==
    /\ mpc = "command"
    /\ procIn.args[1] = <<"list">>
    /\ \E listed \in ClientResults :
        /\ callListConnected(listed)
        /\ stdout' = stdout \o ListActive(listed).out
        /\ Exit(IF ListActive(listed).err.isNil THEN 0 ELSE 2)
    /\ UNCHANGED <<procIn, mpass, checked, macVars, tblVars>>

\* case "check"
cmdCheck ==
    /\ mpc = "command"
    /\ procIn.args[1] = <<"check">>
    /\ IF Len(procIn.args) < 2
       THEN /\ Exit(2)
            /\ UNCHANGED <<stdout, checked, routerVars>>
       ELSE \E listed \in ClientResults :
            LET res == CheckByMatcher(listed, procIn.args[2])
            IN  /\ callListConnected(listed)
                /\ checked' = res
                /\ stdout' = stdout \o printFound(res)
                /\ Exit(checkExit(res))
    /\ UNCHANGED <<procIn, mpass, macVars, tblVars>>

\* default: of the switch
cmdUnknown ==
    /\ mpc = "command"
    /\ procIn.args[1] \notin {<<"list-all">>, <<"list">>, <<"check">>}
    /\ Exit(2)
    /\ UNCHANGED <<procIn, mpass, stdout, checked, routerVars, macVars, tblVars>>

NextMain ==
    \/ mainStart
    \/ resolvePassword
    \/ readPassword
    \/ newClient
    \/ cmdListAll
    \/ cmdList
    \/ cmdCheck
    \/ cmdUnknown

SpecMain == InitMain /\ [][NextMain]_vars

----------------------------------------------------------------------------
(* The exit code and the output of the check command *)

Exited == mpc = "exited"
IsCheck == Len(procIn.args) >= 1 /\ procIn.args[1] = <<"check">>
Printed(s) ==
    \E i \in 1..(Len(stdout) - Len(s) + 1) : SubSeq(stdout, i, i + Len(s) - 1) = s
TrueText == <<"t", "r", "u", "e">>
FalseText == <<"f", "a", "l", "s", "e">>
ClientMade == user # EmptyStr
ListSucceeded == calls > 0 /\ ret.done /\ ret.err.isNil
ListFailed == calls > 0 /\ ret.done /\ ~ret.err.isNil

\* C16: when the process has run the check command and exited, the exit
\* code is 0 exactly when the matcher was found, 1 exactly when
\* ListConnected succeeded and the matcher was not found, and 2 in every
\* other case: a missing matcher, a failed ListConnected (login or fetch),
\* or an exit before the command ran. After a failed ListConnected the
\* exit code is 2 and neither true nor false has been printed.
C16_CheckExitCodes ==
    (Exited /\ IsCheck) =>
        /\ exitCode \in {0, 1, 2}
        /\ exitCode = 0 <=> (checked.done /\ checked.found)
        /\ exitCode = 1 <=> (ListSucceeded /\ checked.done /\ ~checked.found)
        /\ exitCode = 0 => ListSucceeded /\ Printed(TrueText \o <<"\n">>)
        /\ exitCode = 1 => Printed(FalseText \o <<"\n">>)
        /\ Len(procIn.args) < 2 => exitCode = 2 /\ calls = 0
        /\ ListFailed =>
            /\ exitCode = 2
            /\ ~Printed(TrueText)
            /\ ~Printed(FalseText)
        /\ exitCode = 2 => ~Printed(TrueText) /\ ~Printed(FalseText)

C16_Witness ==
    /\ Exited
    /\ IsCheck
    /\ Len(procIn.args) = 2
    /\ ListFailed
    /\ ret.err = Errorf("failed fetching host table: ", TransportFailure.err.text)
    /\ exitCode = 2
    /\ stdout = EmptyStr

----------------------------------------------------------------------------
(* CheckByMatcher *)

DeviceMatches(d, matcher) ==
    /\ d.Active
    /\ \/ Canonical(d.MAC) = Canonical(matcher)
       \/ d.Hostname = matcher
       \/ d.IP = matcher

\* C17: CheckByMatcher returns true exactly when ListConnected succeeded
\* and one of the devices it returned is active and has a MAC equal to
\* the matcher once both are normalized, or a hostname equal to the
\* matcher, or an IP equal to the matcher; with no active device among
\* the returned ones the result is false.
C17_CheckByMatcher ==
    checked.done =>
        /\ checked.found <=>
            /\ ListSucceeded
            /\ \E i \in 1..Len(ret.devices) : DeviceMatches(ret.devices[i], procIn.args[2])
        /\ (\A i \in 1..Len(ret.devices) : ~ret.devices[i].Active) => ~checked.found
        /\ checked.err = ret.err

C17_Witness ==
    /\ checked.done
    /\ ~checked.found
    /\ ListSucceeded
    /\ procIn.args[2] = <<"A", "-", "C">>
    /\ Len(ret.devices) = 2
    /\ ret.devices[1].MAC = <<"a", "-", "c">>
    /\ ~ret.devices[1].Active
    /\ ret.devices[2].Active

----------------------------------------------------------------------------
(* The password of the router client *)

FlagGiven == procIn.passFlag # EmptyStr
EnvGiven == procIn.env.set /\ procIn.env.v # EmptyStr
FileGiven == dotEnvPass(procIn.dotenv) # EmptyStr
Prompted == Printed(<<"Password for ">>)
PastPassword == mpc \notin {"start", "password"}
Runs == Len(procIn.args) > 0 /\ TrimSpace(procIn.userFlag) # EmptyStr

\* C18: the client is made with the -pass flag if that is not empty, else
\* with the AM_I_HOME_ROUTER_PASS variable of the environment if it is set
\* and not empty, else with the AM_I_HOME_ROUTER_PASS entry of the .env
\* file if there is one, else with what was typed at the prompt. The
\* prompt is shown only when none of the three gives a password and stdin
\* is a terminal; when none gives one and stdin is no terminal, the
\* process exits with code 2, no client is made and ListConnected is
\* never called.
C18_PasswordPriority ==
    /\ ClientMade =>
        pass = IF FlagGiven THEN procIn.passFlag
               ELSE IF EnvGiven THEN procIn.env.v
               ELSE IF FileGiven THEN dotEnvPass(procIn.dotenv)
               ELSE procIn.stdin.p
    /\ Prompted => ~FlagGiven /\ ~EnvGiven /\ ~FileGiven /\ procIn.tty
    /\ (ClientMade /\ ~FlagGiven /\ ~EnvGiven /\ ~FileGiven) =>
        Prompted /\ ~procIn.stdin.failed
    /\ (Runs /\ PastPassword /\ ~FlagGiven /\ ~EnvGiven /\ ~FileGiven /\ ~procIn.tty) =>
        /\ Exited
        /\ exitCode = 2
        /\ ~ClientMade
        /\ calls = 0
        /\ trace = <<>>

C18_Witness ==
    /\ ClientMade
    /\ ~FlagGiven
    /\ procIn.env.v = <<"e">>
    /\ dotEnvPass(procIn.dotenv) = <<"d">>
    /\ pass = <<"e">>
    /\ calls = 1

----------------------------------------------------------------------------
(* The requests of one ListConnected call *)

RequestPlan ==
    <<[method |-> "POST", path |-> LoginPath],
      [method |-> "POST", path |-> LoginPath],
      [method |-> "GET", path |-> MenuPath],
      [method |-> "GET", path |-> HostTblPath],
      [method |-> "POST", path |-> LogoutPath]>>
Requests == [i \in 1..Len(trace) |-> [method |-> trace[i].method, path |-> trace[i].path]]
InCall == pc \notin {"idle", "returned"}

\* the requests sent so far are a prefix of the plan: sentinel POST, hash
\* POST, menu GET, host-table GET, logout POST; the login endpoint is
\* requested at most twice and the others at most once; a call that has
\* returned sent the whole plan or stopped after the first or the second
\* login POST
PlanFollowed ==
    /\ Len(trace) <= Len(RequestPlan)
    /\ Requests = SubSeq(RequestPlan, 1, Len(trace))
    /\ Len(trace) >= 1 => FormGet(trace[1].form, "password") = SeekSaltHash
    /\ Len(trace) >= 2 => FormGet(trace[2].form, "password") = finalHash
    /\ Cardinality(Sent(LoginPath)) <= 2
    /\ \A p \in {MenuPath, HostTblPath, LogoutPath} : Cardinality(Sent(p)) <= 1
    /\ ret.done => Len(trace) \in {1, 2, 5}
    /\ (InCall /\ Len(trace) \in {3, 4}) => ~ret.done

\* a step sends at most one request, after the requests sent before it
\* have got their response, and leaves those as they are; only the start
\* of a new call clears the list
OneRequestPerStep ==
    trace' # trace =>
        \/ pc = "idle" /\ trace' = <<>>
        \/ /\ InCall
           /\ Len(trace') = Len(trace) + 1
           /\ SubSeq(trace', 1, Len(trace)) = trace

\* C21: no request is retried: in every ListConnected call the requests
\* are a prefix of POST login (sentinel), POST login (hash), GET menu, GET
\* hostTbl, POST logout, each sent once the one before it has completed;
\* login is requested at most twice, every other endpoint at most once,
\* and a returned call has sent 1, 2 or all 5 of them.
C21_NoRetry == []PlanFollowed /\ [][OneRequestPerStep]_vars

C21_Witness ==
    /\ pc = "returned"
    /\ Len(trace) = 2
    /\ ~trace[2].resp.err.isNil
    /\ Cardinality(Sent(LoginPath)) = 2
    /\ calls = 2

----------------------------------------------------------------------------
(* Transport failures *)

\* the i-th request of the call failed at the transport level
TransportFailed(i) == Len(trace) >= i /\ ~trace[i].resp.err.isNil
TimedOut(prefix) == Err(<<prefix, "timeout">>)

\* C22 as stated: a call that has returned after a transport failure of
\* any one of its requests has returned an error.
C22_Original ==
    (ret.done /\ \E i \in 1..Len(trace) : TransportFailed(i)) => ~ret.err.isNil

\* C22 amended: a transport failure of the challenge POST or of the
\* credential POST ends the call at once with an error naming the step; a
\* transport failure of the host-table GET makes the call return an error
\* naming the fetch, after the logout POST; a transport failure of the
\* menu GET or of the logout POST changes nothing: the call goes on and
\* returns what the host-table GET decides.
C22_TransportFailures ==
    /\ TransportFailed(1) =>
        /\ ret = Returned(<<>>, TimedOut("failed requesting salt: "))
        /\ Len(trace) = 1
    /\ TransportFailed(2) =>
        /\ ret = Returned(<<>>, TimedOut("failed posting hashed password: "))
        /\ Len(trace) = 2
    /\ TransportFailed(4) =>
        /\ fetchRes = Returned(<<>>, TimedOut("failed fetching host table: "))
        /\ ~ret.done => (pc = "logout" /\ Len(trace) = 4)
        /\ ret.done => (ret = fetchRes /\ Len(trace) = 5)
    /\ TransportFailed(3) =>
        /\ LoginSucceeded
        /\ ~ret.done => pc \in {"fetch", "logout"}
    /\ (ret.done /\ Len(trace) = 5) =>
        /\ ret = hostTblResult(trace[4].resp)
        /\ FetchOk => ret.err.isNil

C22_Witness ==
    /\ ret.done
    /\ TransportFailed(3)
    /\ TransportFailed(5)
    /\ FetchOk
    /\ ret.err.isNil
    /\ Len(ret.devices) = 1

----------------------------------------------------------------------------
(* No partial success *)

\* where a call that returned an error failed
FailurePoint ==
    IF LoginFailed THEN "login"
    ELSE IF TransportFailed(4) THEN "fetch transport"
    ELSE IF ~hostTblResp(trace[4].resp.body).err.isNil THEN "fetch parse"
    ELSE "envelope"

\* C23: whenever tryLogin, fetchHostTbl or ListConnected has returned an
\* error, at whatever point the failure happened, the device list it
\* returned with it is empty, also when the envelope that is not ok holds
\* host records.
C23_NoPartialSuccess ==
    /\ (loginRes.done /\ ~loginRes.err.isNil) => loginRes.devices = <<>>
    /\ (fetchRes.done /\ ~fetchRes.err.isNil) => fetchRes.devices = <<>>
    /\ (ret.done /\ ~ret.err.isNil) =>
        /\ ret.devices = <<>>
        /\ FailurePoint \in {"login", "fetch transport", "fetch parse", "envelope"}
        /\ FailurePoint = "login" => Len(trace) \in {1, 2}
        /\ FailurePoint # "login" => Len(trace) = 5

C23_Witness ==
    /\ ret.done
    /\ ~ret.err.isNil
    /\ FailurePoint = "envelope"
    /\ trace[4].resp.body.error = Absent
    /\ Len(trace[4].resp.body.hostTbl) = 2
    /\ trace[4].resp.body.hostTbl[1].active = <<"true">>
    /\ ret.devices = <<>>

----------------------------------------------------------------------------
(* Termination.  http.Client{Timeout: 10 * time.Second} makes every        *)
(* client.Do return, with a response or with an error, so each step of a   *)
(* call that has been started is eventually taken; the caller is free to   *)
(* start a call or not.                                                    *)

SpecLive ==
    /\ Spec
    /\ WF_vars(tryLoginChallenge)
    /\ WF_vars(tryLoginSubmit)
    /\ WF_vars(activateSession)
    /\ WF_vars(fetchHostTbl)
    /\ WF_vars(logout)

\* C24: every ListConnected call that has started returns, whatever the
\* outcome of each step, and has sent at most five requests when it does.
C24_Terminates ==
    /\ [](Len(trace) <= 5)
    /\ InCall ~> (pc = "returned" /\ ret.done)

C24_Witness ==
    /\ pc = "returned"
    /\ ret.done
    /\ Len(trace) = 5
    /\ TransportFailed(3)
    /\ TransportFailed(4)
    /\ TransportFailed(5)

----------------------------------------------------------------------------
(* The failure classes *)

\* the i-th request was answered with a body that is not JSON
Unparsable(i) ==
    /\ Len(trace) >= i
    /\ trace[i].resp.err.isNil
    /\ trace[i].resp.body.kind = "garbage"

\* C25: each failure class is reported as an error of its own: a challenge
\* body that is not JSON gives the salt-parse error, a host-table body
\* that is not JSON gives the host-table parse error, and a
\* credential-submit body that is not JSON gives an error that differs
\* from the one reported for rejected credentials.
C25_MalformedSubmitIsDistinct ==
    /\ Unparsable(1) =>
        loginRes = Returned(<<>>, Err(<<"failed parsing salt response: ", "invalid character">>))
    /\ Unparsable(4) =>
        fetchRes = Returned(<<>>, Err(<<"failed parsing host table JSON: ", "invalid character">>))
    /\ Unparsable(2) =>
        /\ LoginFailed
        /\ loginRes.err # LoginRejected

----------------------------------------------------------------------------
(* What the requests carry *)

FormValues(form) == {kv[2] : kv \in form}

\* the double-round hash of the configured password under the salts that
\* the challenge response of the current call gave
ExpectedHash ==
    pbkdf2Hex(pbkdf2Hex(pass, FieldString(trace[1].resp.body.salt)),
              FieldString(trace[1].resp.body.saltwebui))

\* C26: in every request of every call, the password field holds the
\* sentinel "seeksalthash" or the double-round hash and nothing else, no
\* field of any request holds the configured password (a password that is
\* itself the sentinel string aside), and the menu, host-table and logout
\* requests carry no form field at all.
C26_NoPlaintextPassword ==
    \A i \in 1..Len(trace) :
        /\ trace[i].path = LoginPath =>
            /\ FormKeys(trace[i].form) = {"username", "password"}
            /\ FormGet(trace[i].form, "username") = user
            /\ FormGet(trace[i].form, "password") =
                  IF i = 1 THEN <<"seeksalthash">> ELSE ExpectedHash
        /\ trace[i].path \in {MenuPath, HostTblPath, LogoutPath} => trace[i].form = {}
        /\ trace[i].path \in {LoginPath, MenuPath, HostTblPath, LogoutPath}
        /\ pass # <<"seeksalthash">> => pass \notin FormValues(trace[i].form)
        /\ ExpectedHash # pass

C26_Witness ==
    /\ calls = 2
    /\ pass = <<"pw1">>
    /\ Len(trace) = 5
    /\ FormGet(trace[2].form, "password") =
          <<"pbkdf2(", "pbkdf2(", "pw1", ",", "s1", ")", ",", "w1", ")">>
    /\ trace[5].form = {}

----------------------------------------------------------------------------
(* From the challenge to the credential submit *)

NonEmptyString(f) == f.t = "str" /\ f.s # EmptyStr
BothSalts(body) == NonEmptyString(body.salt) /\ NonEmptyString(body.saltwebui)

\* tryLogin has computed the hashes and goes on to, or has sent, the
\* credential POST
Proceeded ==
    /\ Len(hashes) = 2
    /\ finalHash = ExpectedHash
    /\ \/ pc = "submit" /\ Len(trace) = 1
       \/ Len(trace) >= 2 /\ FormGet(trace[2].form, "password") = ExpectedHash

\* the challenge body parses: json.Unmarshal fills the salt object from
\* it, which takes a JSON object whose fields, where present, are strings
ChallengeParses ==
    /\ Answered(1)
    /\ Other \notin {trace[1].resp.body.error, trace[1].resp.body.salt,
                     trace[1].resp.body.saltwebui}

\* C27: tryLogin goes on from the challenge to the credential submit
\* exactly when the challenge body parses with a non-empty salt and a
\* non-empty saltwebui; what the error field says and the status code
\* play no part, so a response with error "fail", or with no error field,
\* or with status 500, and both salts still leads to the two hashes and
\* the credential POST.
C27_ChallengeDecision ==
    Len(trace) >= 1 =>
        /\ Proceeded <=> (ChallengeParses /\ BothSalts(trace[1].resp.body))
        /\ ~Proceeded => (LoginFailed /\ Len(trace) = 1 /\ hashes = <<>>)

C27_Witness ==
    /\ Len(trace) >= 2
    /\ trace[1].resp.status = 500
    /\ trace[1].resp.body.error = Str(<<"fail">>)
    /\ Proceeded
    /\ trace[2].path = LoginPath

====
